---------------------------- MODULE Spec2Model ----------------------------
(***************************************************************************)
(* Model of fractal_rs: the escape-time engine (src/mandelbrot.rs), the    *)
(* palette rendering pass and the UI/worker pipeline (src/main.rs).        *)
(*                                                                         *)
(* f64 values are modelled as binary floating-point numbers of reduced     *)
(* precision: a value is an integer count of 2^-FracBits units that has at *)
(* most MantBits significant bits, and every arithmetic operation rounds   *)
(* its exact result to the nearest such value, ties to even, as IEEE-754   *)
(* does.  Infinities and NaN are not represented: every configuration the  *)
(* model draws is finite and every divisor non-zero, except where an       *)
(* action says otherwise.                                                  *)
(***************************************************************************)
EXTENDS Integers, Sequences, FiniteSets, TLC

(* ------------------------------ bounds --------------------------------- *)

\* significand width of the modelled floating-point format
MantBits == 5
\* the smallest representable step is 2^-FracBits
FracBits == 9
\* largest width, height and iteration budget a configuration may hold
MaxWidth == 3
MaxHeight == 2
MaxIter == 3
\* how many compute_mandelbrot calls one run makes
MaxCalls == 2
\* the longest palette, and a large iteration budget, of the rendering runs
MaxPalette == 3
BigBudget == 50
\* how many user actions a run of the viewer makes
MaxActions == 3
\* how many Detail clicks a run of the detail controls makes, and how many
\* requests may be unanswered when one is made
MaxPresses == 11
MaxPending == 2

(* ------------------------- floating point ------------------------------ *)

Pow2(n) == 2^n

\* 1.0 in units
Unit == Pow2(FracBits)

IAbs(a) == IF a < 0 THEN -a ELSE a

\* The integer nearest to a/b (b > 0), ties to the even one.
RoundNearestEven(a, b) ==
    LET q == a \div b
        r == a % b
    IN  IF 2 * r < b THEN q
        ELSE IF 2 * r > b THEN q + 1
        ELSE IF q % 2 = 0 THEN q ELSE q + 1

\* The exponent at which a/b has at most MantBits significant bits.
RECURSIVE ExpOf(_, _, _)
ExpOf(a, b, e) ==
    IF IAbs(a) < Pow2(MantBits) * b * Pow2(e) THEN e ELSE ExpOf(a, b, e + 1)

\* The floating-point value nearest to the exact quotient a/b (b > 0).
Fl(a, b) ==
    LET e == ExpOf(a, b, 0)
    IN  RoundNearestEven(a, b * Pow2(e)) * Pow2(e)

\* u32 as f64
FromInt(k) == Fl(k * Unit, 1)

FAdd(x, y) == Fl(x + y, 1)
FSub(x, y) == Fl(x - y, 1)
FMul(x, y) == Fl(x * y, Unit)
\* x / y for y # 0
FDiv(x, y) == IF y > 0 THEN Fl(x * Unit, y) ELSE Fl(-(x * Unit), -y)

\* the decimal literal n/d (0.9 is FLit(9, 10))
FLit(n, d) == Fl(n * Unit, d)

\* f64 as usize: truncation toward zero, negative values saturate to 0
AsUsize(x) == IF x <= 0 THEN 0 ELSE x \div Unit

(* --------------------------- complex numbers --------------------------- *)

Complex64(re, im) == [re |-> re, im |-> im]

CMul(a, b) ==
    Complex64(FSub(FMul(a.re, b.re), FMul(a.im, b.im)),
              FAdd(FMul(a.re, b.im), FMul(a.im, b.re)))

CAdd(a, b) == Complex64(FAdd(a.re, b.re), FAdd(a.im, b.im))

\* z.abs() < 2.0, with z.abs() = hypot(re, im) correctly rounded: the rounded
\* modulus is below 2.0 exactly when the exact one is below the midpoint of
\* 2.0 and its predecessor (the tie rounds to 2.0, whose significand is even).
AbsLt2(z) ==
    LET ulp == IF FracBits + 1 > MantBits THEN Pow2(FracBits + 1 - MantBits) ELSE 1
        m2  == 4 * Unit - ulp      \* twice the midpoint
    IN  4 * (z.re * z.re + z.im * z.im) < m2 * m2


(* ------------------------- src/mandelbrot.rs --------------------------- *)

Mandelbrot == [tag |-> "Mandelbrot", c |-> Complex64(0, 0)]
Julia(c) == [tag |-> "Julia", c |-> c]

\* struct State
State(w, h, mi, sc, ce, ft) ==
    [width |-> w, height |-> h, max_iterations |-> mi, scale |-> sc,
     center |-> ce, fractal_type |-> ft]

\* struct FractalSample
FractalSample(z, escape) == [z |-> z, escape |-> escape]

ZeroSample == FractalSample(Complex64(0, 0), 0)

\* State::aspect
aspect(st) == FDiv(FromInt(st.width), FromInt(st.height))

\* State::increments
increments(st) ==
    [x_incr |-> FDiv(st.scale, FromInt(st.width)),
     y_incr |-> FDiv(FDiv(st.scale, aspect(st)), FromInt(st.height))]

\* Data::new and Data::resize build the same grid: height rows of width
\* zeroed samples.
ZeroGrid(st) == [y \in 1..st.height |-> [x \in 1..st.width |-> ZeroSample]]

\* the while loop of mandelbrot_f: z <- z*z + c while i < max_iterations and
\* |z| < 2.0; yields the z and the i the loop ends with
RECURSIVE escape_loop(_, _, _, _)
escape_loop(c, z, i, max_iterations) ==
    IF i < max_iterations /\ AbsLt2(z)
    THEN escape_loop(c, CAdd(CMul(z, z), c), i + 1, max_iterations)
    ELSE FractalSample(z, i)

\* faulty variant of mandelbrot_f: the loop runs while i <= max_iterations
mandelbrot_f_inclusive(c, z0, cur_iterations, max_iterations) ==
    escape_loop(c, z0, cur_iterations, max_iterations + 1)

\* faulty variant of mandelbrot_f: the sample keeps z0 instead of the final z
mandelbrot_f_stale(c, z0, cur_iterations, max_iterations) ==
    FractalSample(z0, escape_loop(c, z0, cur_iterations, max_iterations).escape)

\* mandelbrot_f
mandelbrot_f(c, z0, cur_iterations, max_iterations) ==
    escape_loop(c, z0, cur_iterations, max_iterations)

\* the sample one step of mandelbrot_row / julia_row stores at x_cur, y_cur
row_sample(st, x_cur, y_cur) ==
    LET z == Complex64(x_cur, y_cur)
        c == IF st.fractal_type.tag = "Mandelbrot" THEN z ELSE st.fractal_type.c
    IN  mandelbrot_f(c, z, 0, st.max_iterations)

\* compute_mandelbrot's locals: the top-left corner of the viewport
y_top(st) == FAdd(st.center.im, FDiv(FDiv(st.scale, aspect(st)), FromInt(2)))
x_left(st) == FSub(st.center.re, FDiv(st.scale, FromInt(2)))

\* faulty variant of row_y_cur: the row index is taken one too far
row_y_cur_next(st, idx) == FSub(y_top(st), FMul(FromInt(idx + 1), increments(st).y_incr))

\* the y_cur the closure hands to the row function for entry.0 = idx
row_y_cur(st, idx) == FSub(y_top(st), FMul(FromInt(idx), increments(st).y_incr))

\* faulty variant of entry_row: every task is handed the first row
entry_row_shared(t) == 1

\* par_iter_mut().enumerate(): the task with index t (1-based) holds the
\* mutable borrow of row t
entry_row(t) == t

(* ------------------------------ the inputs ----------------------------- *)

\* the views a configuration may show: the initial one of new_fractal, and
\* one zoomed in by a step of 0.9 and moved to the left tip of the set
Views ==
    {[scale |-> FromInt(2), center |-> Complex64(0, 0)],
     [scale |-> FMul(FromInt(2), FLit(9, 10)),
      center |-> Complex64(-FLit(3, 2), FLit(1, 4))]}
FractalTypes == {Mandelbrot, Julia(Complex64(-FLit(3, 4), FLit(1, 4)))}
Widths == 1..MaxWidth
Heights == 1..MaxHeight
\* no iteration at all, and the two largest budgets
Budgets == {0, MaxIter - 1, MaxIter}

States ==
    {State(w, h, mi, v.scale, v.center, ft) :
        w \in Widths, h \in Heights, mi \in Budgets, v \in Views,
        ft \in FractalTypes}

(* ------------------------------- state --------------------------------- *)

\* the engine
VARIABLES
    state,          \* Data.state
    fractal_data,   \* Data.fractal_data: rows of samples
    pc,             \* "idle" | "running" | "done" (the call returned) | "panicked"
    tasks,          \* the row tasks of the running call: [x, x_cur, y_cur, st]
    written,        \* <<task, row, column>> of every store of the running call
    before,         \* fractal_data as the running call found it
    results,        \* history: [state, data] of every call that returned
    calls           \* compute_mandelbrot calls started

evars == <<state, fractal_data, pc, tasks, written, before, results, calls>>

\* the rendering pass
VARIABLES
    pal,              \* the Palette handed to render_image_to_surface
    buffer,           \* image.pixels, one colour per sample, row-major
    offset,           \* the local offset of the rendering loop
    scale_factor,     \* render_image_linear's local: [kind, v]
    render_pc,        \* "idle" | "linear" | "modulus" | "done" | "panicked"
    overflow_checks   \* whether the build checks integer overflow (debug) or wraps

rvars == <<pal, buffer, offset, scale_factor, render_pc, overflow_checks>>

\* the viewer and its worker
VARIABLES
    current_state,    \* FractalViewer.current_state
    current_palette,  \* FractalViewer.current_palette
    current_texture,  \* FractalViewer.current_texture: <<>> is None
    to_worker,        \* the channel ui_send -> background_recv
    to_ui,            \* the channel background_send -> ui_recv
    ui_pc,            \* "running" | "panicked"
    intended,         \* history: the configuration with every action applied in order
    actions           \* history: the user actions made

uvars == <<current_state, current_palette, current_texture, to_worker, to_ui,
           ui_pc, intended, actions>>

vars == <<evars, rvars, uvars>>

\* Data::new(state) for a valid state
EngineInit ==
    /\ state \in States
    /\ fractal_data = ZeroGrid(state)
    /\ pc = "idle"
    /\ tasks = <<>>
    /\ written = {}
    /\ before = <<>>
    /\ results = <<>>
    /\ calls = 0

Quiet == pc \in {"idle", "done"}

\* faulty variant of ComputeStart: no row-count check, one task per row the
\* grid happens to have
ComputeStartUnchecked ==
    /\ Quiet
    /\ calls < MaxCalls
    /\ calls' = calls + 1
    /\ before' = fractal_data
    /\ written' = {}
    /\ pc' = "running"
    /\ tasks' = [t \in 1..Len(fractal_data) |->
                   [x |-> 0, x_cur |-> x_left(state),
                    y_cur |-> row_y_cur(state, t - 1), st |-> "ready"]]
    /\ UNCHANGED <<state, fractal_data, results>>
    /\ UNCHANGED <<rvars, uvars>>

\* compute_mandelbrot up to the fan-out: the row-count check, the locals, and
\* one task per row of fractal_data
ComputeStart ==
    /\ Quiet
    /\ calls < MaxCalls
    /\ calls' = calls + 1
    /\ before' = fractal_data
    /\ written' = {}
    /\ IF Len(fractal_data) # state.height
       THEN /\ pc' = "panicked"
            /\ tasks' = <<>>
       ELSE /\ pc' = "running"
            /\ tasks' = [t \in 1..Len(fractal_data) |->
                           [x |-> 0, x_cur |-> x_left(state),
                            y_cur |-> row_y_cur(state, t - 1), st |-> "ready"]]
    /\ UNCHANGED <<state, fractal_data, results>>
    /\ UNCHANGED <<rvars, uvars>>

\* faulty variant of RowStep: the row tasks advance one x_cur they share (kept
\* in the first task) instead of each its own
RowStepSharedCursor(t) ==
    /\ pc = "running"
    /\ t \in DOMAIN tasks
    /\ tasks[t].st = "ready"
    /\ LET tk  == tasks[t]
           row == entry_row(t)
           col == tk.x + 1
           cur == tasks[1].x_cur
       IN  IF col > Len(fractal_data[row])
           THEN /\ tasks' = [tasks EXCEPT ![t].st = "panicked"]
                /\ UNCHANGED <<fractal_data, written>>
           ELSE /\ fractal_data' =
                       [fractal_data EXCEPT ![row][col] = row_sample(state, cur, tk.y_cur)]
                /\ written' = written \cup {<<t, row, col>>}
                /\ tasks' = [[tasks EXCEPT
                       ![t].x = col,
                       ![t].st = IF col = state.width THEN "done" ELSE "ready"]
                     EXCEPT ![1].x_cur = FAdd(cur, increments(state).x_incr)]
    /\ UNCHANGED <<state, pc, before, results, calls>>
    /\ UNCHANGED <<rvars, uvars>>

\* one iteration of the loop of mandelbrot_row / julia_row in task t
RowStep(t) ==
    /\ pc = "running"
    /\ t \in DOMAIN tasks
    /\ tasks[t].st = "ready"
    /\ LET tk  == tasks[t]
           row == entry_row(t)
           col == tk.x + 1
       IN  IF col > Len(fractal_data[row])
           THEN \* data_row[x]: index out of bounds
                /\ tasks' = [tasks EXCEPT ![t].st = "panicked"]
                /\ UNCHANGED <<fractal_data, written>>
           ELSE /\ fractal_data' =
                       [fractal_data EXCEPT ![row][col] =
                           row_sample(state, tk.x_cur, tk.y_cur)]
                /\ written' = written \cup {<<t, row, col>>}
                /\ tasks' = [tasks EXCEPT
                       ![t].x = col,
                       ![t].x_cur = FAdd(tk.x_cur, increments(state).x_incr),
                       ![t].st = IF col = state.width THEN "done" ELSE "ready"]
    /\ UNCHANGED <<state, pc, before, results, calls>>
    /\ UNCHANGED <<rvars, uvars>>

\* for_each returns once every row task has finished
ComputeReturn ==
    /\ pc = "running"
    /\ \A t \in DOMAIN tasks : tasks[t].st = "done"
    /\ pc' = "done"
    /\ results' = Append(results, [state |-> state, data |-> fractal_data])
    /\ UNCHANGED <<state, fractal_data, tasks, written, before, calls>>
    /\ UNCHANGED <<rvars, uvars>>

\* a panic of a row task is resumed at the join: tasks that started run to
\* their end, tasks that did not start may never run
ComputePanic ==
    /\ pc = "running"
    /\ \E t \in DOMAIN tasks : tasks[t].st = "panicked"
    /\ \A t \in DOMAIN tasks : tasks[t].st \in {"done", "panicked"} \/ tasks[t].x = 0
    /\ pc' = "panicked"
    /\ UNCHANGED <<state, fractal_data, tasks, written, before, results, calls>>
    /\ UNCHANGED <<rvars, uvars>>

\* the value after v in the ordered set vals, the first after the last
NextOf(v, vals) ==
    IF \E u \in vals : u > v
    THEN CHOOSE u \in vals : u > v /\ \A u2 \in vals : u2 > v => u <= u2
    ELSE CHOOSE u \in vals : \A u2 \in vals : u <= u2

\* the other element of a set of two
OtherOf(v, vals) == CHOOSE u \in vals : u # v

\* between two calls the caller assigns to the public Data.state: the next
\* width, height or budget, the other view (scale and center), or the other
\* variant
SetField ==
    /\ pc = "done"
    /\ calls < MaxCalls
    /\ \/ state' = [state EXCEPT !.width = NextOf(state.width, Widths)]
       \/ state' = [state EXCEPT !.height = NextOf(state.height, Heights)]
       \/ state' = [state EXCEPT !.max_iterations = NextOf(state.max_iterations, Budgets)]
       \/ LET v == OtherOf([scale |-> state.scale, center |-> state.center], Views)
          IN  state' = [state EXCEPT !.scale = v.scale, !.center = v.center]
       \/ state' = [state EXCEPT !.fractal_type = OtherOf(state.fractal_type, FractalTypes)]
    /\ pc' = "idle"
    /\ UNCHANGED <<fractal_data, tasks, written, before, results, calls>>
    /\ UNCHANGED <<rvars, uvars>>

\* Data::resize, taken when it changes the grid and a call may follow
Resize ==
    /\ Quiet
    /\ calls < MaxCalls
    /\ fractal_data # ZeroGrid(state)
    /\ fractal_data' = ZeroGrid(state)
    /\ pc' = "idle"
    /\ UNCHANGED <<state, tasks, written, before, results, calls>>
    /\ UNCHANGED <<rvars, uvars>>

(* ---------------------- src/main.rs: rendering -------------------------- *)

\* Color32::BLACK; every other colour is a positive number
Color32_BLACK == 0

\* struct Palette, without its palette_type
Palette(mode, data) == [color_mode |-> mode, palette |-> data]


NoFactor == [kind |-> "unset", v |-> 0]

\* fractal_data.iter() over the rows, row.iter() over their entries
RECURSIVE Flatten(_)
Flatten(rows) == IF rows = <<>> THEN <<>> ELSE Head(rows) \o Flatten(Tail(rows))

\* faulty variant of linear_scale_factor: pal.len() where pal.len() - 1 is meant
linear_scale_factor_len(len, max_iterations) ==
    IF len = 0 THEN [kind |-> "wrapped", v |-> 0]
    ELSE IF max_iterations = 0 THEN [kind |-> "nonfinite", v |-> 0]
    ELSE [kind |-> "finite", v |-> FDiv(FromInt(len), FromInt(max_iterations))]

\* (pal.len() - 1) as f64 / max_iterations as f64.  pal.len() - 1 on an empty
\* palette overflows usize: the caller aborts where overflow is checked and
\* gets usize::MAX where it wraps.  A zero budget makes the quotient inf or NaN.
linear_scale_factor(len, max_iterations) ==
    IF len = 0 THEN [kind |-> "wrapped", v |-> 0]
    ELSE IF max_iterations = 0 THEN [kind |-> "nonfinite", v |-> 0]
    ELSE [kind |-> "finite", v |-> FDiv(FromInt(len - 1), FromInt(max_iterations))]

\* (entry.escape as f64 * scale_factor) as usize, for a finite scale_factor
linear_val(escape, sf) == AsUsize(FMul(FromInt(escape), sf.v))

\* entry.escape as usize % pal_len
modulus_val(escape, pal_len) == escape % pal_len

\* render_image_to_surface: the dispatch on color_mode and the locals the
\* chosen function sets up before its loop
RenderStart ==
    /\ render_pc = "idle"
    /\ offset' = 0
    /\ IF pal.color_mode = "LinearScale"
       THEN IF Len(pal.palette) = 0 /\ overflow_checks
            THEN \* attempt to subtract with overflow
                 /\ render_pc' = "panicked"
                 /\ scale_factor' = NoFactor
            ELSE /\ render_pc' = "linear"
                 /\ scale_factor' = linear_scale_factor(Len(pal.palette), state.max_iterations)
       ELSE /\ render_pc' = "modulus"
            /\ scale_factor' = NoFactor
    /\ UNCHANGED <<pal, buffer, overflow_checks>>
    /\ UNCHANGED <<evars, uvars>>

\* one entry of the loop of render_image_linear
RenderLinearPixel ==
    /\ render_pc = "linear"
    /\ offset < Len(Flatten(fractal_data))
    /\ LET entry == Flatten(fractal_data)[offset + 1]
       IN  IF entry.escape >= state.max_iterations
           THEN /\ buffer' = [buffer EXCEPT ![offset + 1] = Color32_BLACK]
                /\ offset' = offset + 1
                /\ UNCHANGED render_pc
           ELSE IF scale_factor.kind # "finite"
                   \/ linear_val(entry.escape, scale_factor) >= Len(pal.palette)
           THEN \* pal[val]: index out of bounds
                /\ render_pc' = "panicked"
                /\ UNCHANGED <<buffer, offset>>
           ELSE /\ buffer' = [buffer EXCEPT ![offset + 1] =
                                 pal.palette[linear_val(entry.escape, scale_factor) + 1]]
                /\ offset' = offset + 1
                /\ UNCHANGED render_pc
    /\ UNCHANGED <<pal, scale_factor, overflow_checks>>
    /\ UNCHANGED <<evars, uvars>>

\* one entry of the loop of render_image_modulus
RenderModulusPixel ==
    /\ render_pc = "modulus"
    /\ offset < Len(Flatten(fractal_data))
    /\ LET entry == Flatten(fractal_data)[offset + 1]
       IN  IF entry.escape >= state.max_iterations
           THEN /\ buffer' = [buffer EXCEPT ![offset + 1] = Color32_BLACK]
                /\ offset' = offset + 1
                /\ UNCHANGED render_pc
           ELSE IF Len(pal.palette) = 0
           THEN \* remainder with a divisor of zero
                /\ render_pc' = "panicked"
                /\ UNCHANGED <<buffer, offset>>
           ELSE /\ buffer' = [buffer EXCEPT ![offset + 1] =
                                 pal.palette[modulus_val(entry.escape, Len(pal.palette)) + 1]]
                /\ offset' = offset + 1
                /\ UNCHANGED render_pc
    /\ UNCHANGED <<pal, scale_factor, overflow_checks>>
    /\ UNCHANGED <<evars, uvars>>

\* the loop is over: the rendering function returns
RenderReturn ==
    /\ render_pc \in {"linear", "modulus"}
    /\ offset = Len(Flatten(fractal_data))
    /\ render_pc' = "done"
    /\ UNCHANGED <<pal, buffer, offset, scale_factor, overflow_checks>>
    /\ UNCHANGED <<evars, uvars>>

\* the inputs of the rendering runs
PaletteOfLen(n) == [i \in 1..n |-> i]
PaletteDatas == {PaletteOfLen(n) : n \in 0..MaxPalette} \cup {<<Color32_BLACK, 1>>}
Palettes == {Palette(m, d) : m \in {"LinearScale", "Modulus"}, d \in PaletteDatas}
RenderBudgets == Budgets \cup {BigBudget}
SampleEscapes == (0..(MaxIter + 1)) \cup {BigBudget \div 2, BigBudget, BigBudget + 2}
RenderShapes == {<<1, 1>>, <<1, 2>>, <<2, 1>>}
RenderGrids ==
    UNION {[1..sh[1] -> [1..sh[2] -> {FractalSample(Complex64(0, 0), e) : e \in SampleEscapes}]] :
              sh \in RenderShapes}
\* a colour of no palette, for the pixels of a buffer not yet rendered
StaleColor == MaxPalette + 1

(* ------------------- src/main.rs: the viewer and its worker ------------- *)

WIDTH == 1024
HEIGHT == 768

\* State::new(w, h), then center.re -= 0.5 (FractalViewer::new)
State_new(w, h) == State(w, h, 500, FromInt(2), Complex64(0, 0), Mandelbrot)
InitialState ==
    LET st == State_new(WIDTH, HEIGHT)
    IN  [st EXCEPT !.center = Complex64(FSub(st.center.re, FLit(1, 2)), st.center.im)]

\* State::pixel_to_mandelbrot_coord: the plane point under pixel (x, y)
pixel_to_mandelbrot_coord(st, x, y) ==
    Complex64(FAdd(x_left(st), FMul(FromInt(x), increments(st).x_incr)),
              FSub(y_top(st), FMul(FromInt(y), increments(st).y_incr)))

PaletteTypes == {"BW", "Color1Mod", "Color1Lin", "Color2Mod", "Color2Lin"}

\* struct StateAndPalette
StateAndPalette(st, p) == [state |-> st, pal |-> p]

\* struct FractalImage; the texture is named by what it was rendered from
FractalImage(st, p) == [state |-> st, palette |-> p, texture |-> <<st, p>>]

\* max_iterations -= 50 on a u32: a result below zero aborts where overflow
\* is checked; where it wraps, the wrapped value v + 2^32 is held as v
u32_sub(a, b) == a - b


\* the widgets a frame can report as clicked or changed
Inputs ==
    {[kind |-> k, x |-> 0, y |-> 0, pal |-> "BW"] :
        k \in {"none", "image", "zoom_in", "zoom_out", "mandelbrot", "julia",
               "detail_up", "detail_down"}}
    \cup {[kind |-> "palette", x |-> 0, y |-> 0, pal |-> p] : p \in PaletteTypes}

\* what update's widgets make of new_state, which starts as a clone of base,
\* while the viewer shows the state shown; update itself applies them with
\* base = shown = current_state
apply_input(base, shown, in) ==
    CASE in.kind = "image" ->
            [base EXCEPT !.center = pixel_to_mandelbrot_coord(shown, in.x, in.y)]
      [] in.kind = "zoom_in" -> [base EXCEPT !.scale = FMul(base.scale, FLit(9, 10))]
      [] in.kind = "zoom_out" -> [base EXCEPT !.scale = FMul(base.scale, FLit(11, 10))]
      [] in.kind = "mandelbrot" -> [base EXCEPT !.fractal_type = Mandelbrot]
      [] in.kind = "julia" ->
            [base EXCEPT !.fractal_type =
                IF base.fractal_type.tag = "Mandelbrot" THEN Julia(shown.center)
                ELSE base.fractal_type]
      [] in.kind = "detail_up" -> [base EXCEPT !.max_iterations = base.max_iterations + 50]
      [] in.kind = "detail_down" ->
            [base EXCEPT !.max_iterations = u32_sub(base.max_iterations, 50)]
      [] OTHER -> base

apply_palette(base, in) == IF in.kind = "palette" THEN in.pal ELSE base

\* FractalViewer::new: the first request is sent before the first frame
ViewerInit ==
    /\ current_state = InitialState
    /\ current_palette = "Color1Lin"
    /\ current_texture = <<>>
    /\ to_worker = <<StateAndPalette(InitialState, "Color1Lin")>>
    /\ to_ui = <<>>
    /\ ui_pc = "running"
    /\ intended = StateAndPalette(InitialState, "Color1Lin")
    /\ actions = 0

\* FractalViewer::update: one frame with the widgets reporting in
Frame(in) ==
    /\ ui_pc = "running"
    /\ in.kind = "none" => to_ui # <<>>
    /\ LET got     == to_ui # <<>>
           cur     == IF got THEN Head(to_ui).state ELSE current_state
           cur_pal == IF got THEN Head(to_ui).palette ELSE current_palette
           cur_tex == IF got THEN Head(to_ui).texture ELSE current_texture
           new_state   == apply_input(cur, cur, in)
           new_palette == apply_palette(cur_pal, in)
           clicked == in.kind \in {"image", "zoom_in", "zoom_out", "detail_up", "detail_down"}
           send_new_state ==
               \/ clicked
               \/ new_palette # cur_pal
               \/ new_state.fractal_type # cur.fractal_type
       IN  /\ in.kind = "image" => cur_tex # <<>>
           /\ current_state' = cur
           /\ current_palette' = cur_pal
           /\ current_texture' = cur_tex
           /\ to_ui' = IF got THEN Tail(to_ui) ELSE to_ui
           /\ IF in.kind = "detail_down" /\ cur.max_iterations < 50 /\ overflow_checks
              THEN \* attempt to subtract with overflow
                   /\ ui_pc' = "panicked"
                   /\ UNCHANGED to_worker
              ELSE /\ ui_pc' = ui_pc
                   /\ to_worker' = IF send_new_state
                                   THEN Append(to_worker, StateAndPalette(new_state, new_palette))
                                   ELSE to_worker
           /\ intended' = StateAndPalette(apply_input(intended.state, cur, in),
                                          apply_palette(intended.pal, in))
           /\ actions' = IF in.kind = "none" THEN actions ELSE actions + 1
    /\ UNCHANGED <<evars, rvars>>

\* a frame of a run of up to MaxActions user actions
Update(in) ==
    /\ in.kind # "none" => actions < MaxActions
    /\ Frame(in)

\* the Detail '+' and '-' buttons, and a frame without a click
DetailInputs == {in \in Inputs : in.kind \in {"none", "detail_up", "detail_down"}}

\* the requests sent whose reply this frame will not have received
Pending == Len(to_worker) + (IF to_ui = <<>> THEN 0 ELSE Len(to_ui) - 1)

\* a frame of a run of up to MaxPresses Detail clicks, each made while fewer
\* than MaxPending requests are unanswered
DetailUpdate(in) ==
    /\ in.kind # "none" => (actions < MaxPresses /\ Pending < MaxPending)
    /\ Frame(in)

\* background_thread: one turn of its loop, from recv to send
WorkerTurn ==
    /\ to_worker # <<>>
    /\ to_worker' = Tail(to_worker)
    /\ to_ui' = Append(to_ui, FractalImage(Head(to_worker).state, Head(to_worker).pal))
    /\ UNCHANGED <<current_state, current_palette, current_texture, ui_pc, intended, actions>>
    /\ UNCHANGED <<evars, rvars>>

(* --------------------------- specifications ---------------------------- *)

EngineParked ==
    /\ pc = "idle"
    /\ tasks = <<>>
    /\ written = {}
    /\ before = <<>>
    /\ results = <<>>
    /\ calls = 0

RenderParked ==
    /\ pal = Palette("LinearScale", <<>>)
    /\ buffer = <<>>
    /\ offset = 0
    /\ scale_factor = NoFactor
    /\ render_pc = "idle"

ViewerParked ==
    /\ current_state = InitialState
    /\ current_palette = "Color1Lin"
    /\ current_texture = <<>>
    /\ to_worker = <<>>
    /\ to_ui = <<>>
    /\ ui_pc = "running"
    /\ intended = StateAndPalette(InitialState, "Color1Lin")
    /\ actions = 0

\* the engine: Data::new, then compute_mandelbrot calls, field assignments and
\* resizes by the caller
Init ==
    /\ EngineInit
    /\ RenderParked
    /\ overflow_checks = TRUE
    /\ ViewerParked

Next ==
    \/ ComputeStart
    \/ \E t \in 1..MaxHeight : RowStep(t)
    \/ ComputeReturn
    \/ ComputePanic
    \/ SetField
    \/ Resize

Spec == Init /\ [][Next]_vars

\* the rendering pass over a grid of samples
RenderInit ==
    /\ state \in {State(1, 1, mi, FromInt(2), Complex64(0, 0), Mandelbrot) : mi \in RenderBudgets}
    /\ fractal_data \in RenderGrids
    /\ EngineParked
    /\ pal \in Palettes
    /\ \E fill \in {Color32_BLACK, StaleColor} :
          buffer = [i \in 1..Len(Flatten(fractal_data)) |-> fill]
    /\ offset = 0
    /\ scale_factor = NoFactor
    /\ render_pc = "idle"
    /\ overflow_checks \in BOOLEAN
    /\ ViewerParked

RenderNext ==
    \/ RenderStart
    \/ RenderLinearPixel
    \/ RenderModulusPixel
    \/ RenderReturn

SpecRender == RenderInit /\ [][RenderNext]_vars

\* the viewer and its worker thread
UiInit ==
    /\ state = InitialState
    /\ fractal_data = <<>>
    /\ EngineParked
    /\ RenderParked
    /\ overflow_checks \in BOOLEAN
    /\ ViewerInit

UiNext ==
    \/ \E in \in Inputs : Update(in)
    \/ WorkerTurn

SpecUI == UiInit /\ [][UiNext]_vars

\* the viewer with only its Detail buttons in use
DetailNext ==
    \/ \E in \in DetailInputs : DetailUpdate(in)
    \/ WorkerTurn

SpecDetail == UiInit /\ [][DetailNext]_vars



(* ------------------------- claims on the engine ------------------------ *)

\* the grid has the shape of its configuration
ShapeMatches(st, data) ==
    /\ Len(data) = st.height
    /\ \A y \in 1..Len(data) : Len(data[y]) = st.width

\* the cells of the configured viewport, 1-based
Cells(st) == (1..st.height) \X (1..st.width)

\* the constant c of the iteration at the point z0
ConstantAt(st, z0) == IF st.fractal_type.tag = "Mandelbrot" THEN z0 ELSE st.fractal_type.c

\* the imaginary part of pixel row y (0-based): center.im + (scale/aspect)/2 - y*y_increment
PixelIm(st, y) ==
    LET asp == FDiv(FromInt(st.width), FromInt(st.height))
        ext == FDiv(st.scale, asp)
    IN  FSub(FAdd(st.center.im, FDiv(ext, FromInt(2))),
             FMul(FromInt(y), FDiv(ext, FromInt(st.height))))

\* the real part of pixel column x (0-based) as the product formula gives it:
\* center.re - scale/2 + x*x_increment
PixelReProduct(st, x) ==
    FAdd(FSub(st.center.re, FDiv(st.scale, FromInt(2))),
         FMul(FromInt(x), FDiv(st.scale, FromInt(st.width))))

\* the real part of pixel column x (0-based) as x successive additions of
\* x_increment to center.re - scale/2
RECURSIVE PixelReSum(_, _)
PixelReSum(st, x) ==
    IF x = 0 THEN FSub(st.center.re, FDiv(st.scale, FromInt(2)))
    ELSE FAdd(PixelReSum(st, x - 1), FDiv(st.scale, FromInt(st.width)))

IterateAt(st, z0) == mandelbrot_f(ConstantAt(st, z0), z0, 0, st.max_iterations)

\* C1 as stated: after compute_mandelbrot returns on a grid of matching shape,
\* the sample at [y][x] is iterate(c, z0, 0, max_iterations) at
\* z0 = (center.re - scale/2 + x*x_increment) + i(center.im + (scale/aspect)/2
\* - y*y_increment), whatever the grid held before.
C1_ProductFormula ==
    (pc = "done" /\ ShapeMatches(state, fractal_data)) =>
        \A y \in 1..state.height, x \in 1..state.width :
            fractal_data[y][x] =
                IterateAt(state, Complex64(PixelReProduct(state, x - 1), PixelIm(state, y - 1)))

\* C1 amended: the same with the real part of z0 obtained by x successive
\* floating-point additions of x_increment to center.re - scale/2.
C1_EveryCellRecomputed ==
    (pc = "done" /\ ShapeMatches(state, fractal_data)) =>
        \A y \in 1..state.height, x \in 1..state.width :
            fractal_data[y][x] =
                IterateAt(state, Complex64(PixelReSum(state, x - 1), PixelIm(state, y - 1)))

\* a second call has returned on a grid that held other, non-zero samples
C1_Witness ==
    /\ pc = "done"
    /\ ShapeMatches(state, fractal_data)
    /\ Len(results) = 2
    /\ state.width >= 3
    /\ \E y \in 1..state.height, x \in 1..state.width :
          /\ before[y][x] # ZeroSample
          /\ before[y][x] # fractal_data[y][x]

\* C2: row-level write isolation.  While a call runs and after it returned
\* there is exactly one task per row, every store of task t went to row t, no
\* cell was stored to by two tasks, and every cell no task stored to holds what
\* it held when the call began.
C2_RowWriteIsolation ==
    pc \in {"running", "done"} =>
        /\ DOMAIN tasks = 1..Len(fractal_data)
        /\ Len(fractal_data) = state.height
        /\ \A w \in written : w[2] = w[1]
        /\ \A w1, w2 \in written : (w1[2] = w2[2] /\ w1[3] = w2[3]) => w1[1] = w2[1]
        /\ \A y \in 1..Len(fractal_data) : \A x \in 1..Len(fractal_data[y]) :
              (\A t \in DOMAIN tasks : <<t, y, x>> \notin written) =>
                  fractal_data[y][x] = before[y][x]

\* two row tasks are both part-way through their rows
C2_Witness ==
    /\ pc = "running"
    /\ \E t1, t2 \in DOMAIN tasks :
          /\ t1 # t2
          /\ tasks[t1].st = "ready" /\ tasks[t1].x >= 1
          /\ tasks[t2].st = "ready" /\ tasks[t2].x >= 1

\* C3: determinism.  Any two calls that returned with the same configuration
\* on a grid of matching shape left the same grid, whatever the order in which
\* their row tasks ran.
C3_Deterministic ==
    \A i, j \in DOMAIN results :
        (/\ results[i].state = results[j].state
         /\ ShapeMatches(results[i].state, results[i].data)
         /\ ShapeMatches(results[j].state, results[j].data))
        => results[i].data = results[j].data

\* two calls with the same configuration have returned, each with two rows
\* of two or more samples whose tasks ran in any order
C3_Witness ==
    /\ Len(results) = 2
    /\ results[1].state = results[2].state
    /\ results[1].state.width >= 2
    /\ results[1].state.height >= 2
    /\ results[1].state.max_iterations >= 2
    /\ \E p \in Cells(state) : results[2].data[p[1]][p[2]].escape >= 1

\* C4: after compute_mandelbrot returns, every sample of the configured grid
\* has 0 <= escape <= max_iterations.
C4_EscapeInRange ==
    pc = "done" =>
        \A y \in 1..state.height, x \in 1..state.width :
            /\ fractal_data[y][x].escape >= 0
            /\ fractal_data[y][x].escape <= state.max_iterations

\* a Mandelbrot and a Julia call have returned, the last with a sample at the
\* budget and one below it
C4_Witness ==
    /\ pc = "done"
    /\ Len(results) = 2
    /\ results[1].state.fractal_type.tag # results[2].state.fractal_type.tag
    /\ state.max_iterations >= 2
    /\ \E p, q \in Cells(state) :
          /\ fractal_data[p[1]][p[2]].escape = state.max_iterations
          /\ fractal_data[q[1]][q[2]].escape < state.max_iterations

\* |z| >= 2.0 for the correctly rounded modulus: the exact one is at or above
\* the midpoint of 2.0 and the value before it
ModulusAtLeast2(z) ==
    LET below == 2 * Unit - (IF FracBits + 1 > MantBits THEN Pow2(FracBits + 1 - MantBits) ELSE 1)
    IN  4 * (z.re * z.re + z.im * z.im) >= (2 * Unit + below) * (2 * Unit + below)

\* C5 as stated, for a positive budget: escape < max_iterations exactly when
\* |final_z| >= 2.0, and escape == max_iterations exactly when |final_z| < 2.0.
C5_ExactClassification ==
    (pc = "done" /\ state.max_iterations >= 1) =>
        \A p \in Cells(state) :
            LET s == fractal_data[p[1]][p[2]]
            IN  /\ (s.escape < state.max_iterations) <=> ModulusAtLeast2(s.z)
                /\ (s.escape = state.max_iterations) <=> ~ModulusAtLeast2(s.z)

\* C5 amended: escape < max_iterations implies |final_z| >= 2.0, and
\* |final_z| < 2.0 implies escape == max_iterations.
C5_EscapedImpliesOutside ==
    pc = "done" =>
        \A p \in Cells(state) :
            LET s == fractal_data[p[1]][p[2]]
            IN  /\ (s.escape < state.max_iterations) => ModulusAtLeast2(s.z)
                /\ ~ModulusAtLeast2(s.z) => (s.escape = state.max_iterations)

\* a sample that crossed the radius on its last allowed iteration, beside one
\* that escaped earlier and one that stayed inside
C5_Witness ==
    /\ pc = "done"
    /\ state.max_iterations >= 1
    /\ \E p, q, r \in Cells(state) :
          /\ fractal_data[p[1]][p[2]].escape = state.max_iterations
          /\ ModulusAtLeast2(fractal_data[p[1]][p[2]].z)
          /\ fractal_data[q[1]][q[2]].escape < state.max_iterations
          /\ fractal_data[r[1]][r[2]].escape = state.max_iterations
          /\ ~ModulusAtLeast2(fractal_data[r[1]][r[2]].z)

\* C6 as stated: for the Mandelbrot variant with center = 0+0i the escape
\* value at row y equals the one at row height-1-y, in every column.
C6_MirrorSymmetric ==
    (/\ pc = "done"
     /\ ShapeMatches(state, fractal_data)
     /\ state.fractal_type.tag = "Mandelbrot"
     /\ state.center = Complex64(0, 0))
    => \A y \in 1..state.height, x \in 1..state.width :
           fractal_data[y][x].escape = fractal_data[state.height + 1 - y][x].escape

\* C7: a call on a grid whose row count differs from the configured height
\* never dispatches a row task and aborts with every sample as it was; a call
\* that returned stored to every cell of the configured grid.
C7_AbortsBeforeDispatch ==
    /\ pc = "running" => Len(fractal_data) = state.height
    /\ (pc = "panicked" /\ Len(fractal_data) # state.height) =>
          /\ tasks = <<>>
          /\ written = {}
          /\ fractal_data = before
    /\ pc = "done" =>
          \A p \in Cells(state) : <<p[1], p[1], p[2]>> \in written

\* a second call aborted on a grid that holds the first call's samples
C7_Witness ==
    /\ pc = "panicked"
    /\ Len(fractal_data) # state.height
    /\ calls = 2
    /\ Len(results) = 1
    /\ fractal_data = results[1].data
    /\ \E y \in 1..Len(fractal_data) : \E x \in 1..Len(fractal_data[y]) :
          fractal_data[y][x] # ZeroSample

(* ------------------------ claims on the rendering ---------------------- *)

\* the samples in the order the rendering loops visit them
Entries == Flatten(fractal_data)

\* the pixels the running or finished rendering pass has stored
Rendered == IF render_pc = "idle" THEN {} ELSE 1..offset

\* floor(escape * (len - 1) / max_iterations)
FloorIndex(escape, len, max_iterations) == (escape * (len - 1)) \div max_iterations

\* the same in floating point: escape times the rounded quotient
\* (len - 1) / max_iterations, rounded, then truncated
FloatIndex(escape, len, max_iterations) ==
    LET sf   == FDiv(FromInt(len - 1), FromInt(max_iterations))
        prod == FMul(FromInt(escape), sf)
    IN  IF prod <= 0 THEN 0 ELSE prod \div Unit

\* C8 as stated: in LinearScale mode with a non-empty palette the pass never
\* indexes outside the palette, and every sample with escape < max_iterations
\* gets the palette entry at floor(escape * (len - 1) / max_iterations).
C8_FloorIndexed ==
    (pal.color_mode = "LinearScale" /\ Len(pal.palette) >= 1) =>
        /\ render_pc # "panicked"
        /\ \A k \in Rendered :
              Entries[k].escape < state.max_iterations =>
                  LET i == FloorIndex(Entries[k].escape, Len(pal.palette), state.max_iterations)
                  IN  /\ i \in 0..(Len(pal.palette) - 1)
                      /\ buffer[k] = pal.palette[i + 1]

\* C8 amended: the index is the truncated floating-point product of escape
\* and the rounded quotient (len - 1) / max_iterations; it lies in
\* [0, len - 1] and the pass never indexes outside the palette.
C8_FloatIndexed ==
    (pal.color_mode = "LinearScale" /\ Len(pal.palette) >= 1) =>
        /\ render_pc # "panicked"
        /\ \A k \in Rendered :
              Entries[k].escape < state.max_iterations =>
                  LET i == FloatIndex(Entries[k].escape, Len(pal.palette), state.max_iterations)
                  IN  /\ i \in 0..(Len(pal.palette) - 1)
                      /\ buffer[k] = pal.palette[i + 1]

\* a finished linear pass over a sample whose floating-point index is below
\* the floor of the exact quotient
C8_Witness ==
    /\ render_pc = "done"
    /\ pal.color_mode = "LinearScale"
    /\ Len(pal.palette) >= 2
    /\ \E k \in Rendered :
          /\ Entries[k].escape < state.max_iterations
          /\ FloatIndex(Entries[k].escape, Len(pal.palette), state.max_iterations)
                # FloorIndex(Entries[k].escape, Len(pal.palette), state.max_iterations)
          /\ buffer[k] # StaleColor

\* C9 as stated: in both modes and for any palette, a sample with
\* escape >= max_iterations is rendered black and mapping it never aborts: the
\* pass aborts only at a sample with escape < max_iterations.
C9_InsideIsBlack ==
    /\ \A k \in Rendered : Entries[k].escape >= state.max_iterations => buffer[k] = Color32_BLACK
    /\ render_pc = "panicked" =>
          /\ offset < Len(Entries)
          /\ Entries[offset + 1].escape < state.max_iterations

(* -------------------------- claims on the viewer ----------------------- *)

\* C10 as stated: once the worker has processed every request and the viewer
\* has received every reply, the scale, the iteration budget and the center
\* the viewer holds are those of the initial configuration with every zoom,
\* detail and re-center action applied, in the order they were made.
C10_ActionsCumulative ==
    (ui_pc = "running" /\ to_worker = <<>> /\ to_ui = <<>>) =>
        /\ current_state.scale = intended.state.scale
        /\ current_state.max_iterations = intended.state.max_iterations
        /\ current_state.center = intended.state.center

\* C11 as stated: after any sequence of Detail '+' and '-' clicks from the
\* initial configuration, every max_iterations sent to the worker is a
\* positive integer: the subtraction never reaches 0, never wraps below 0
\* and never aborts.
C11_BudgetStaysPositive ==
    /\ ui_pc # "panicked"
    /\ \A i \in DOMAIN to_worker : to_worker[i].state.max_iterations >= 1

=============================================================================
